---- MODULE Spec2Model ----
(***************************************************************************)
(* A model of paperbush's parser (src/src/paperbush/parser.py): the        *)
(* fragment splitter (split_args, are_matching_brackets) and the argument  *)
(* compiler (parse_argument, parse_name, parse_togglables,                 *)
(* parse_properties).                                                      *)
(*                                                                         *)
(* A Python str is a sequence of one-character strings.  Every function of *)
(* the parser is pure; it is an operator here, computed as the code        *)
(* computes it, and its outcome is a record: raised = "" and the returned  *)
(* values, or raised = the name of the exception that escapes.             *)
(* Each specification draws an input string in Init and applies the        *)
(* functions to it.                                                        *)
(***************************************************************************)
EXTENDS Integers, Sequences, FiniteSets, TLC

VARIABLES pc, input, ret

vars == <<pc, input, ret>>

(***************************************************************************)
(* Bounds of the input strings.                                            *)
(***************************************************************************)
MaxLineLen == 5

MaxFragLen == 5

MaxSuffixLen == 7

LineChars == {"[", "]", "(", ")", "\"", "'", " ", "a"}

FragChars == {"-", "x", "1", "|", ":", "=", "+", "!", "?"}

SuffixChars == {":", "=", "a", "1", "!"}

Strings(chars, n) == UNION {[1..k -> chars] : k \in 0..n}

(***************************************************************************)
(* Python values.                                                          *)
(***************************************************************************)
None == [kind |-> "None", val |-> <<>>]

StrVal(s) == [kind |-> "str", val |-> s]

IntVal(n) == [kind |-> "int", val |-> n]

BoolVal(b) == [kind |-> "bool", val |-> b]

STORE_TRUE == [kind |-> "Action", val |-> "store_true"]

COUNT == [kind |-> "Action", val |-> "count"]

NoValue == <<>>

Raise(exc) == [raised |-> exc, value |-> NoValue]

Return(v) == [raised |-> "", value |-> v]

(***************************************************************************)
(* Python's str operations, as the parser uses them.                       *)
(***************************************************************************)
Range(s) == {s[i] : i \in 1..Len(s)}

Min(a, b) == IF a < b THEN a ELSE b

\* string[:n], n >= 0
Take(string, n) == SubSeq(string, 1, Min(n, Len(string)))

\* string[n:], n >= 0
Drop(string, n) == SubSeq(string, Min(n, Len(string)) + 1, Len(string))

startswith(string, prefix) == Take(string, Len(prefix)) = prefix

RECURSIVE lstrip(_, _)
lstrip(string, chars) ==
    IF string # <<>> /\ Head(string) \in chars
    THEN lstrip(Tail(string), chars)
    ELSE string

\* string.index(sep) + 1, or 0 where Python raises ValueError
index(string, sep) ==
    IF sep \in Range(string)
    THEN CHOOSE i \in 1..Len(string) :
            string[i] = sep /\ \A j \in 1..(i - 1) : string[j] # sep
    ELSE 0

\* needle in string, for two strs: a contiguous substring
contains(string, needle) ==
    \E i \in 0..(Len(string) - Len(needle)) :
        SubSeq(string, i + 1, i + Len(needle)) = needle

Whitespace == {" ", "\t", "\n", "\r", "\f"}

RECURSIVE split_from(_, _, _, _)
split_from(string, i, words, word) ==
    IF i > Len(string)
    THEN IF word = <<>> THEN words ELSE Append(words, word)
    ELSE IF string[i] \in Whitespace
    THEN split_from(string, i + 1,
                    IF word = <<>> THEN words ELSE Append(words, word), <<>>)
    ELSE split_from(string, i + 1, words, Append(word, string[i]))

\* string.split()
split(string) == split_from(string, 1, <<>>, <<>>)

RECURSIVE join(_)
\* " ".join(frags)
join(frags) ==
    IF frags = <<>> THEN <<>>
    ELSE IF Len(frags) = 1 THEN frags[1]
    ELSE frags[1] \o <<" ">> \o join(Tail(frags))

ascii_letters ==
    {"a", "b", "c", "d", "e", "f", "g", "h", "i", "j", "k", "l", "m",
     "n", "o", "p", "q", "r", "s", "t", "u", "v", "w", "x", "y", "z",
     "A", "B", "C", "D", "E", "F", "G", "H", "I", "J", "K", "L", "M",
     "N", "O", "P", "Q", "R", "S", "T", "U", "V", "W", "X", "Y", "Z"}

digits == {"0", "1", "2", "3", "4", "5", "6", "7", "8", "9"}

\* str.isidentifier(), on ASCII text
isidentifier(string) ==
    /\ string # <<>>
    /\ string[1] \in ascii_letters \cup {"_"}
    /\ \A i \in 1..Len(string) : string[i] \in ascii_letters \cup digits \cup {"_"}

DigitValue(char) ==
    CASE char = "0" -> 0 [] char = "1" -> 1 [] char = "2" -> 2
      [] char = "3" -> 3 [] char = "4" -> 4 [] char = "5" -> 5
      [] char = "6" -> 6 [] char = "7" -> 7 [] char = "8" -> 8
      [] char = "9" -> 9

RECURSIVE int(_)
\* int(string), string a run of decimal digits
int(string) ==
    IF string = <<>> THEN 0
    ELSE 10 * int(SubSeq(string, 1, Len(string) - 1))
         + DigitValue(string[Len(string)])

(***************************************************************************)
(* Helpers of parser.py.                                                   *)
(***************************************************************************)
\* bisect with an int index
bisect(string, i) == <<Take(string, i), Drop(string, i)>>

is_int(string) == string # <<>> /\ \A i \in 1..Len(string) : string[i] \in digits

stripped_len(string, chars) == Len(string) - Len(lstrip(string, chars))

(***************************************************************************)
(* are_matching_brackets                                                   *)
(***************************************************************************)
opening == <<"[", "(", "{">>

closing == <<"]", ")", "}">>

\* pairs = dict(zip(closing, opening))
pairs(char) == opening[CHOOSE i \in 1..Len(closing) : closing[i] = char]

\* is_string = None
NoQuote == "None"

RECURSIVE brackets_loop(_, _, _, _)
\* the for loop over the characters; i is the position of char
brackets_loop(string, i, stack, is_string) ==
    IF i > Len(string) THEN Return(stack = <<>>)
    ELSE LET char == string[i] IN
        IF is_string = NoQuote /\ char \in {"\"", "'"}
        THEN brackets_loop(string, i + 1, stack, char)
        ELSE IF is_string = char
        THEN brackets_loop(string, i + 1, stack, NoQuote)
        ELSE IF char \in Range(opening)
        THEN brackets_loop(string, i + 1, Append(stack, char), is_string)
        ELSE IF char \in Range(closing)
        THEN IF stack = <<>>
             THEN Raise("IndexError")
             ELSE LET top == stack[Len(stack)] IN
                 IF pairs(char) # top
                 THEN Raise("PaperbushSyntaxError")
                 ELSE brackets_loop(string, i + 1,
                                    SubSeq(stack, 1, Len(stack) - 1), is_string)
        ELSE brackets_loop(string, i + 1, stack, is_string)

are_matching_brackets(string) ==
    IF Range(string) \cap (Range(opening) \cup Range(closing)) = {}
    THEN Return(TRUE)
    ELSE brackets_loop(string, 1, <<>>, NoQuote)

(***************************************************************************)
(* split_args                                                              *)
(***************************************************************************)
RECURSIVE split_args_loop(_, _, _, _)
\* the for loop over frags, with its else clause once the words are spent
split_args_loop(frags, i, out, temp) ==
    IF i > Len(frags)
    THEN IF temp # <<>>
         THEN LET m == are_matching_brackets(temp) IN
             IF m.raised # "" THEN m
             ELSE IF m.value THEN Return(Append(out, temp))
             ELSE Return(out)
         ELSE Return(out)
    ELSE LET f == frags[i] IN
        IF temp # <<>>
        THEN LET m == are_matching_brackets(temp) IN
            IF m.raised # "" THEN m
            ELSE IF m.value
            THEN split_args_loop(frags, i + 1, Append(out, temp), <<>>)
            ELSE split_args_loop(frags, i + 1, out, temp \o <<" ">> \o f)
        ELSE LET m == are_matching_brackets(f) IN
            IF m.raised # "" THEN m
            ELSE IF m.value
            THEN split_args_loop(frags, i + 1, Append(out, f), temp)
            ELSE split_args_loop(frags, i + 1, out, f)

split_args(string) == split_args_loop(split(string), 1, <<>>, <<>>)

(***************************************************************************)
(* Argument                                                                *)
(***************************************************************************)
\* Python's truth value of a str or None
truthy(v) == v # None /\ v # StrVal(<<>>)

\* Argument.__init__(pattern=, name=, short=), the other keywords defaulted
Argument(pattern, name, short) ==
    IF ~(truthy(name) \/ truthy(short))
    THEN Raise("PaperbushNameError")
    ELSE Return([action |-> None,
                 choices |-> None,
                 default |-> None,
                 infer_short |-> BoolVal(FALSE),
                 name |-> name,
                 nargs |-> None,
                 pattern |-> pattern,
                 required |-> None,
                 short |-> short,
                 type_ |-> None])

(***************************************************************************)
(* evaluate                                                                *)
(***************************************************************************)
\* Python's eval(string): the value of the expression, left uninterpreted
eval(string) == [kind |-> "eval", val |-> string]

is_value_ref(string) == string[1] = "$" /\ is_int(Drop(string, 1))

value_ref(string) == int(Drop(string, 1))

evaluate(string, values) ==
    IF string = <<>> THEN Raise("IndexError")
    ELSE IF is_value_ref(string)
    THEN IF value_ref(string) < Len(values)
         THEN Return(values[value_ref(string) + 1])
         ELSE Raise("IndexError")
    ELSE Return(eval(string))

(***************************************************************************)
(* parse_name                                                              *)
(***************************************************************************)
name_charset == ascii_letters \cup digits \cup {"-"}

parse_name(arg) ==
    LET pattern == arg
        lh == stripped_len(arg, {"-"})
    IN  IF Len(arg) = lh THEN Raise("PaperbushNameError")
        ELSE IF lh \notin 0..2 THEN Raise("PaperbushNameError")
        ELSE LET
            cut1 == IF lh = 1
                    THEN bisect(arg, stripped_len(arg, name_charset))
                    ELSE <<<<>>, arg>>
            short_name == cut1[1]
            full_name_allowed ==
                IF lh = 1 THEN startswith(cut1[2], <<"|">>) ELSE TRUE
            arg1 == IF lh = 1 /\ full_name_allowed
                    THEN Drop(cut1[2], 1)
                    ELSE cut1[2]
            cut2 == IF full_name_allowed
                    THEN bisect(arg1, stripped_len(arg1, name_charset))
                    ELSE <<<<>>, arg1>>
            name == cut2[1]
            rest == cut2[2]
        IN  IF short_name = <<>> /\ name = <<>>
            THEN Raise("PaperbushNameError")
            ELSE LET made == Argument(StrVal(pattern), StrVal(name),
                                      IF short_name = <<>> THEN None
                                      ELSE StrVal(short_name))
                 IN  IF made.raised # "" THEN made
                     ELSE Return([argument |-> made.value, string |-> rest])

(***************************************************************************)
(* parse_togglables                                                        *)
(***************************************************************************)
parse_togglables(string) ==
    IF Take(string, 3) \in {<<"+", "+", "!">>, <<"!", "+", "+">>}
    THEN Return([count |-> TRUE, required |-> BoolVal(TRUE),
                 string |-> Drop(string, 3)])
    ELSE LET plus == startswith(string, <<"+", "+">>)
             string1 == IF plus THEN Drop(string, 2) ELSE string
         IN  IF plus /\ string1 = <<>>
             THEN Return([count |-> TRUE, required |-> None, string |-> string1])
             ELSE IF startswith(string1, <<"!">>)
             THEN Return([count |-> FALSE, required |-> BoolVal(TRUE),
                          string |-> Drop(string1, 1)])
             ELSE Return([count |-> FALSE, required |-> None,
                          string |-> string1])

(***************************************************************************)
(* parse_properties                                                        *)
(***************************************************************************)
\* A slip line 250 could hold: "== 3", the cap reached one property early
too_many_properties_at_two(type_, nargs, choices) ==
    Cardinality({type_, nargs, choices, None}) >= 3

\* len({type_, nargs, choices, None}) == 4
too_many_properties(type_, nargs, choices) ==
    Cardinality({type_, nargs, choices, None}) = 4

\* bisect with a str index: string.index(sep) is 0 where Python raises
\* ValueError, which the one caller catches
bisect_str(string, sep) == bisect(string, index(string, sep) - 1)

\* the for sep in ":=" loop with its else: <<prop, string>>
next_prop(string) ==
    IF index(string, ":") # 0 THEN bisect_str(string, ":")
    ELSE IF index(string, "=") # 0 THEN bisect_str(string, "=")
    ELSE <<string, string>>

\* which of type_, nargs, choices the token is assigned to
kind_of(prop) ==
    IF isidentifier(prop) THEN "type_"
    ELSE IF is_int(prop) \/ contains(<<"?", "+", "*">>, prop) THEN "nargs"
    ELSE "choices"

\* int(prop) if i else prop
nargs_value(prop) == IF is_int(prop) THEN IntVal(int(prop)) ELSE StrVal(prop)

RECURSIVE properties_loop(_, _, _, _, _)
\* the while loop, from the top of an iteration: the locals as the loop
\* leaves them.  props lists, for every token extracted, the text it was
\* extracted from and the token.
properties_loop(string, type_, nargs, choices, props) ==
    LET leave(exc, s) == [raised |-> exc, string |-> s, type_ |-> type_,
                          nargs |-> nargs, choices |-> choices, props |-> props]
    IN  IF string = <<>> THEN leave("", string)
        ELSE LET first == bisect(string, 1)[1]
                 string1 == bisect(string, 1)[2]
             IN  IF first = <<"=">> THEN leave("", string1)
                 ELSE IF too_many_properties(type_, nargs, choices)
                 THEN leave("PaperbushSyntaxError", string1)
                 ELSE LET prop == next_prop(string1)[1]
                          string2 == next_prop(string1)[2]
                          kind == kind_of(prop)
                          type1 == IF kind = "type_" THEN StrVal(prop) ELSE type_
                          nargs1 == IF kind = "nargs" THEN nargs_value(prop)
                                    ELSE nargs
                          choices1 == IF kind = "choices" THEN StrVal(prop)
                                      ELSE choices
                          props1 == Append(props, [string |-> string1,
                                                   prop |-> prop])
                      IN  IF prop = string2
                          THEN [raised |-> "", string |-> <<>>, type_ |-> type1,
                                nargs |-> nargs1, choices |-> choices1,
                                props |-> props1]
                          ELSE properties_loop(string2, type1, nargs1, choices1,
                                               props1)

\* The outcome carries, beside the returned (string, argument), the locals
\* of the loop.
parse_properties(string, argument, values) ==
    LET locals == properties_loop(string, None, None, None, <<>>)
        type_ == IF locals.type_ # None
                 THEN evaluate(locals.type_.val, values)
                 ELSE Return(argument.type_)
        choices == IF locals.choices # None
                   THEN evaluate(locals.choices.val, values)
                   ELSE Return(argument.choices)
        fail(exc) == [raised |-> exc, value |-> NoValue, locals |-> locals]
    IN  IF locals.raised # "" THEN fail(locals.raised)
        ELSE IF type_.raised # "" THEN fail(type_.raised)
        ELSE IF choices.raised # "" THEN fail(choices.raised)
        ELSE [raised |-> "",
              value |-> [string |-> locals.string,
                         argument |-> [argument EXCEPT
                            !.type_ = type_.value,
                            !.nargs = IF locals.nargs # None THEN locals.nargs
                                      ELSE @,
                            !.choices = choices.value]],
              locals |-> locals]

(***************************************************************************)
(* parse_argument                                                          *)
(***************************************************************************)
\* A slip line 182 could hold: "if argument.name:"
implicit_flag_any_name(argument) == truthy(argument.name)

\* stripped_len(argument.name or "", "-"), as a truth value
implicit_flag(argument) ==
    stripped_len(IF truthy(argument.name) THEN argument.name.val ELSE <<>>,
                 {"-"}) # 0

\* parse_argument from the check of the suffix's first character on:
\* string is the non-empty suffix that follows the name
parse_suffix(argument, string, values) ==
    IF string[1] \notin {":", "+", "=", "!"}
    THEN Raise("PaperbushSyntaxError")
    ELSE LET toggles == parse_togglables(string).value
             argument1 == [argument EXCEPT
                            !.required = toggles.required,
                            !.action = IF toggles.count THEN COUNT ELSE @]
             string1 == toggles.string
    IN
    IF string1 = <<>> THEN Return(argument1)
    ELSE IF string1[1] \notin {":", "="}
    THEN Raise("PaperbushSyntaxError")
    ELSE LET parsed == parse_properties(string1, argument1, values) IN
    IF parsed.raised # "" THEN Raise(parsed.raised)
    ELSE IF parsed.value.string # <<>>
    THEN LET default == evaluate(parsed.value.string, values) IN
         IF default.raised # "" THEN default
         ELSE Return([parsed.value.argument EXCEPT !.default = default.value])
    ELSE Return(parsed.value.argument)

\* A slip parse_argument could hold: the flag action is set before the
\* suffix is looked at, and the suffix is then parsed as well.
parse_argument_flag_then_suffix(string, infer_name, values) ==
    IF string = <<"^">> THEN Return(StrVal(string))
    ELSE LET named == parse_name(string) IN
    IF named.raised # "" THEN named
    ELSE LET argument == [named.value.argument EXCEPT
                            !.infer_short = BoolVal(infer_name),
                            !.action = IF implicit_flag(named.value.argument)
                                       THEN STORE_TRUE ELSE @]
             string1 == named.value.string
    IN
    IF string1 = <<>> THEN Return(argument)
    ELSE parse_suffix(argument, string1, values)

parse_argument(string, infer_name, values) ==
    IF string = <<"^">> THEN Return(StrVal(string))
    ELSE LET named == parse_name(string) IN
    IF named.raised # "" THEN named
    ELSE LET argument == [named.value.argument EXCEPT
                            !.infer_short = BoolVal(infer_name)]
             string1 == named.value.string
    IN
    IF string1 = <<>>
    THEN Return(IF implicit_flag(argument)
                THEN [argument EXCEPT !.action = STORE_TRUE]
                ELSE argument)
    ELSE parse_suffix(argument, string1, values)

(***************************************************************************)
(* The splitter's specification: a specification line is drawn, and        *)
(* are_matching_brackets or split_args is applied to it.                   *)
(***************************************************************************)
InitLine ==
    /\ pc = "line"
    /\ input \in Strings(LineChars, MaxLineLen)
    /\ ret = NoValue

AreMatchingBrackets ==
    /\ pc = "line"
    /\ pc' = "are_matching_brackets"
    /\ ret' = are_matching_brackets(input)
    /\ UNCHANGED input

SplitArgs ==
    /\ pc = "line"
    /\ pc' = "split_args"
    /\ ret' = split_args(input)
    /\ UNCHANGED input

NextLine == AreMatchingBrackets \/ SplitArgs

SpecLine == InitLine /\ [][NextLine]_vars

(***************************************************************************)
(* Claims about the splitter, checked under SpecLine.                      *)
(***************************************************************************)
BalancedOverall(string) ==
    LET m == are_matching_brackets(string) IN m.raised = "" /\ m.value

IsQuote(char) == char \in {"\"", "'"}

\* C1: for every input whose brackets are balanced overall, split_args
\* returns fragments that, joined with single spaces and re-split on
\* whitespace, give exactly the words of string.split() of the input, in
\* order: no word is lost or invented.  (Stated for the inputs without a
\* quote character, so that a violation does not rest on the quoted spans
\* of C8.)
C1_NoWordLostOrInvented ==
    (/\ pc = "split_args"
     /\ BalancedOverall(input)
     /\ \A i \in 1..Len(input) : ~IsQuote(input[i])) =>
        /\ ret.raised = ""
        /\ split(join(ret.value)) = split(input)

IsBracket(char) == char \in Range(opening) \cup Range(closing)

\* The positions of string that hold a bracket character: the first of them
\* is where are_matching_brackets meets its first bracket.
BracketPositions(string) == {i \in 1..Len(string) : IsBracket(string[i])}

FirstBracketIsClosing(string) ==
    /\ BracketPositions(string) # {}
    /\ LET i == CHOOSE k \in BracketPositions(string) :
                    \A j \in BracketPositions(string) : k <= j
       IN string[i] \in Range(closing)

\* C3: a bad closing bracket is always signalled as PaperbushSyntaxError,
\* also when it is met while the stack is empty (here: the first bracket of
\* a string without quotes is a closing one), and no other kind of
\* exception escapes are_matching_brackets or split_args.
C3_BadClosingIsSyntaxError ==
    /\ pc \in {"are_matching_brackets", "split_args"} =>
            ret.raised \in {"", "PaperbushSyntaxError"}
    /\ (/\ pc = "are_matching_brackets"
        /\ \A i \in 1..Len(input) : ~IsQuote(input[i])
        /\ FirstBracketIsClosing(input)) =>
            ret.raised = "PaperbushSyntaxError"

RECURSIVE without_quoted_brackets(_, _, _)
\* string from position i on, without the bracket characters that lie
\* inside a quoted span; quote is the quote character that opened the
\* span position i lies in, or NoQuote
without_quoted_brackets(string, i, quote) ==
    IF i > Len(string) THEN <<>>
    ELSE LET char == string[i] IN
        IF quote = NoQuote /\ IsQuote(char)
        THEN <<char>> \o without_quoted_brackets(string, i + 1, char)
        ELSE IF quote = char
        THEN <<char>> \o without_quoted_brackets(string, i + 1, NoQuote)
        ELSE IF quote # NoQuote /\ IsBracket(char)
        THEN without_quoted_brackets(string, i + 1, quote)
        ELSE <<char>> \o without_quoted_brackets(string, i + 1, quote)

RECURSIVE quote_open_at_end(_, _, _)
\* the quote character of the span left open at the end of string, or
\* NoQuote: every quoted span is closed
quote_open_at_end(string, i, quote) ==
    IF i > Len(string) THEN quote
    ELSE IF quote = NoQuote /\ IsQuote(string[i])
    THEN quote_open_at_end(string, i + 1, string[i])
    ELSE IF quote = string[i]
    THEN quote_open_at_end(string, i + 1, NoQuote)
    ELSE quote_open_at_end(string, i + 1, quote)

\* C8: are_matching_brackets ignores the bracket characters inside a
\* single- or double-quoted span: its outcome (the balance, or the error
\* raised) is that of the string with those characters removed.  (Stated
\* for the strings whose quoted spans are all closed.)
C8_QuotedBracketsIgnored ==
    (/\ pc = "are_matching_brackets"
     /\ quote_open_at_end(input, 1, NoQuote) = NoQuote) =>
        ret = are_matching_brackets(without_quoted_brackets(input, 1, NoQuote))

(***************************************************************************)
(* The compiler's specification: a fragment is drawn, and parse_argument   *)
(* (with its defaults: infer_name = True, values = None) or parse_name is  *)
(* applied to it, or parse_togglables where the string is one              *)
(* parse_argument passes to it (line 186: non-empty, and its first         *)
(* character one of ":+=!").                                               *)
(***************************************************************************)
InitFragment ==
    /\ pc = "fragment"
    /\ input \in Strings(FragChars, MaxFragLen) \cup {<<"^">>}
    /\ ret = NoValue

ParseArgument ==
    /\ pc = "fragment"
    /\ pc' = "parse_argument"
    /\ ret' = parse_argument(input, TRUE, <<>>)
    /\ UNCHANGED input

ParseName ==
    /\ pc = "fragment"
    /\ pc' = "parse_name"
    /\ ret' = parse_name(input)
    /\ UNCHANGED input

ParseTogglables ==
    /\ pc = "fragment"
    /\ input # <<>>
    /\ input[1] \in {":", "+", "=", "!"}
    /\ pc' = "parse_togglables"
    /\ ret' = parse_togglables(input)
    /\ UNCHANGED input

NextFragment == ParseArgument \/ ParseName \/ ParseTogglables

SpecFragment == InitFragment /\ [][NextFragment]_vars

(***************************************************************************)
(* The property parser's specification: the suffix of a fragment "x..." is *)
(* drawn, one parse_argument passes to parse_properties (line 196: its     *)
(* first character is ":" or "="), and parse_properties is applied to it   *)
(* with the Argument of the name x.                                        *)
(***************************************************************************)
InitSuffix ==
    /\ pc = "suffix"
    /\ input \in {<<first>> \o rest :
                    first \in {":", "="},
                    rest \in Strings(SuffixChars, MaxSuffixLen - 1)}
    /\ ret = NoValue

ParseProperties ==
    /\ pc = "suffix"
    /\ pc' = "parse_properties"
    /\ ret' = parse_properties(
                input,
                Argument(StrVal(<<"x">> \o input), StrVal(<<"x">>), None).value,
                <<>>)
    /\ UNCHANGED input

NextSuffix == ParseProperties

SpecSuffix == InitSuffix /\ [][NextSuffix]_vars

(***************************************************************************)
(* Claims about the compiler, checked under SpecFragment.                  *)
(***************************************************************************)
\* parse_argument has returned an Argument (not the separator "^")
ReturnedArgument ==
    pc = "parse_argument" /\ ret.raised = "" /\ input # <<"^">>

HasNonHyphen(string) == \E i \in 1..Len(string) : string[i] # "-"

\* string begins with "++", followed by nothing or by the properties or
\* the default of the grammar (":" or "=")
BeginsWithCount(string) ==
    /\ startswith(string, <<"+", "+">>)
    /\ Take(Drop(string, 2), 1) \in {<<>>, <<":">>, <<"=">>}

\* C2: whenever the suffix after the name begins with "++" (and not "++!"),
\* with nothing or a ":type" or "=default" suffix after it,
\* parse_togglables reports count and consumes exactly the two "+", and the
\* Argument parse_argument returns has action = count, whether or not more
\* suffix follows; with nothing after the "++", required stays unset.
C2_PlusPlusIsCount ==
    /\ (pc = "parse_togglables" /\ BeginsWithCount(input)) =>
            /\ ret.value.count
            /\ ret.value.string = Drop(input, 2)
    /\ (/\ ReturnedArgument
        /\ parse_name(input).raised = ""
        /\ BeginsWithCount(parse_name(input).value.string)) =>
            /\ ret.value.action = COUNT
            /\ parse_name(input).value.string = <<"+", "+">> =>
                    ret.value.required = None

\* C4: an Argument returned with action = store_true has nargs, default,
\* choices and type_ absent and required unset.
C4_StoreTrueAlone ==
    (ReturnedArgument /\ ret.value.action = STORE_TRUE) =>
        /\ ret.value.nargs = None
        /\ ret.value.default = None
        /\ ret.value.choices = None
        /\ ret.value.type_ = None
        /\ ret.value.required = None

\* a flag with a short and a long name, such as -x|-x
C4_Witness ==
    /\ ReturnedArgument
    /\ ret.value.action = STORE_TRUE
    /\ ret.value.short # None
    /\ HasNonHyphen(ret.value.short.val)
    /\ HasNonHyphen(ret.value.name.val)

\* C5: the nargs of a returned Argument is absent, an integer, or one of
\* the one-character symbols "?", "+", "*".  (Stated for the fragments with
\* a non-hyphen character in the name, so that a violation does not rest on
\* an all-hyphen name, the subject of C10.)
C5_NargsIsArity ==
    (ReturnedArgument /\ HasNonHyphen(ret.value.name.val)) =>
        \/ ret.value.nargs = None
        \/ ret.value.nargs.kind = "int"
        \/ ret.value.nargs \in {StrVal(<<"?">>), StrVal(<<"+">>), StrVal(<<"*">>)}

\* the fragment is a name parse_name accepts, with nothing after it
BareName(string) ==
    parse_name(string).raised = "" /\ parse_name(string).value.string = <<>>

\* C6 as stated: for a fragment that is a valid name and nothing else,
\* parse_argument returns action = store_true exactly when the parsed
\* long/positional name contains a non-hyphen character, and no action
\* otherwise; nargs, default and required stay unset.
C6_FlagIffNonHyphenName ==
    (pc = "parse_argument" /\ BareName(input)) =>
        /\ ret.raised = ""
        /\ ret.value.action =
              IF HasNonHyphen(ret.value.name.val) THEN STORE_TRUE ELSE None
        /\ ret.value.nargs = None
        /\ ret.value.default = None
        /\ ret.value.required = None

\* C6 as amended: for a fragment that is a valid name and nothing else,
\* parse_argument returns action = store_true exactly when the parsed long
\* name begins with a hyphen, and no action otherwise (a positional name
\* such as x, a short-only fragment such as -v); nargs, default and
\* required stay unset.
C6_FlagIffHyphenatedName ==
    (pc = "parse_argument" /\ BareName(input)) =>
        /\ ret.raised = ""
        /\ ret.value.action =
              IF startswith(ret.value.name.val, <<"-">>) THEN STORE_TRUE
              ELSE None
        /\ ret.value.nargs = None
        /\ ret.value.default = None
        /\ ret.value.required = None

\* a positional name, such as x: no action
C6_Witness ==
    /\ pc = "parse_argument"
    /\ BareName(input)
    /\ ret.value.action = None
    /\ HasNonHyphen(ret.value.name.val)

\* C10: parse_name raises a naming error or returns an Argument whose name
\* or short form contains a non-hyphen character.
C10_NameHasNonHyphen ==
    pc = "parse_name" =>
        \/ ret.raised = "PaperbushNameError"
        \/ /\ ret.raised = ""
           /\ \/ HasNonHyphen(ret.value.argument.name.val)
              \/ /\ ret.value.argument.short # None
                 /\ HasNonHyphen(ret.value.argument.short.val)

(***************************************************************************)
(* Claims about parse_properties, checked under SpecSuffix.                *)
(***************************************************************************)
\* the text before the earliest ":" or "=" of string, all of it without one
UpToEarliestSeparator(string) ==
    LET at == {i \in 1..Len(string) : string[i] \in {":", "="}} IN
    IF at = {} THEN string
    ELSE Take(string, (CHOOSE i \in at : \A j \in at : i <= j) - 1)

\* C7: in each iteration of the loop the token ends at the earliest ":" or
\* "=" of the remaining suffix, whichever comes first.  (Stated for the
\* iterations with some text before that separator, so that a violation
\* does not rest on the empty token of C5.)
C7_TokenEndsAtEarliestSeparator ==
    pc = "parse_properties" =>
        \A i \in 1..Len(ret.locals.props) :
            UpToEarliestSeparator(ret.locals.props[i].string) # <<>> =>
                ret.locals.props[i].prop =
                    UpToEarliestSeparator(ret.locals.props[i].string)

\* the local that holds the tokens of a kind
LocalOf(locals, kind) ==
    CASE kind = "type_" -> locals.type_
      [] kind = "nargs" -> locals.nargs
      [] kind = "choices" -> locals.choices

\* the value a token leaves in its local
ValueOf(prop) ==
    IF kind_of(prop) = "nargs" THEN nargs_value(prop) ELSE StrVal(prop)

Kinds == {"type_", "nargs", "choices"}

\* the kinds the first n tokens of props have set
KindsSetBy(props, n) == {kind_of(props[i].prop) : i \in 1..n}

\* the final value of every kind is the last token of that kind
LastWins(locals) ==
    \A kind \in Kinds :
        LET at == {i \in 1..Len(locals.props) :
                        kind_of(locals.props[i].prop) = kind}
        IN  LocalOf(locals, kind) =
                IF at = {} THEN None
                ELSE ValueOf(locals.props[CHOOSE i \in at :
                                            \A j \in at : j <= i].prop)

\* every token is a non-empty text without "=": a type, an integer, an
\* arity symbol or a choices expression, as the grammar has them
PlainTokens(props) ==
    \A i \in 1..Len(props) :
        props[i].prop # <<>> /\ "=" \notin Range(props[i].prop)

\* C9 as stated: a token of a kind already set overwrites the earlier value
\* without error, however many kinds are set; "too many properties" is
\* raised only at a token of a further distinct kind, never at one of a
\* kind already set.  (Stated for the suffixes whose tokens are plain, so
\* that a violation does not rest on the empty token of C5 or on the "="
\* inside a token of C7.)
C9_ErrorOnlyAtNewKind ==
    (pc = "parse_properties" /\ PlainTokens(ret.locals.props)) =>
        /\ LastWins(ret.locals)
        /\ ret.raised = "PaperbushSyntaxError" =>
              LocalOf(ret.locals,
                      kind_of(next_prop(ret.locals.string)[1])) = None

\* C9 as amended: a token of a kind already set overwrites the earlier
\* value (the final value of each kind is the last token of that kind)
\* while fewer than three kinds are set; once type, arity and choices are
\* all set, any further property token, which is then of a kind already
\* set, raises "too many properties", and the error is raised in no other
\* case.
C9_OverwriteUntilThreeKinds ==
    pc = "parse_properties" =>
        /\ ret.raised \in {"", "PaperbushSyntaxError"}
        /\ LastWins(ret.locals)
        /\ \A i \in 1..Len(ret.locals.props) :
              KindsSetBy(ret.locals.props, i - 1) # Kinds
        /\ ret.raised = "PaperbushSyntaxError" =>
              /\ KindsSetBy(ret.locals.props, Len(ret.locals.props)) = Kinds
              /\ LocalOf(ret.locals,
                         kind_of(next_prop(ret.locals.string)[1])) # None
        /\ (/\ ret.raised = ""
            /\ KindsSetBy(ret.locals.props, Len(ret.locals.props)) = Kinds) =>
              \* the third kind was set by the last token of the suffix's
              \* properties: no ":" token follows it
              LET last == ret.locals.props[Len(ret.locals.props)] IN
              \/ last.prop = last.string
              \/ startswith(Drop(last.string, Len(last.prop)), <<"=">>)

\* a second token of a kind overwrites the first while two kinds are set,
\* as in :a:1:aa
C9_Witness ==
    /\ pc = "parse_properties"
    /\ ret.raised = ""
    /\ PlainTokens(ret.locals.props)
    /\ \E i, j \in 1..Len(ret.locals.props) :
          /\ i < j
          /\ kind_of(ret.locals.props[i].prop) = kind_of(ret.locals.props[j].prop)
          /\ ret.locals.props[i].prop # ret.locals.props[j].prop
    /\ Cardinality(KindsSetBy(ret.locals.props, Len(ret.locals.props))) = 2

====
